---- MODULE Spec2Model ----
(***************************************************************************)
(* Model of saleor/dashboard/discount/forms.py: the sale form's cross-field *)
(* validation, voucher code generation, the four voucher variant forms and *)
(* the shipping country choices.                                           *)
(*                                                                         *)
(* Python's None is the empty tuple <<>>; a value v that is present is the *)
(* one-element tuple <<v>>, so that None compares with every value.        *)
(***************************************************************************)
EXTENDS Integers, Sequences, FiniteSets, TLC

VARIABLES
    instance,        \* the Voucher a variant form is bound to (self.instance)
    before,          \* the Voucher's fields when the variant form was bound
    submitted,       \* cleaned_data of the variant form last saved
    lastForm,        \* which variant form saved last ("none" before any such save)
    salePc,          \* SaleForm position: "unbound", "bound", "cleaned", "raised"
    data,            \* SaleForm.data: the submitted type and value
    cleaned_data,    \* SaleForm.cleaned_data
    errors,          \* SaleForm field names that carry an error
    returned_data,   \* what SaleForm.clean returned (None before it returns)
    genPc,           \* _generate_code position: "idle", "loop", "returned", "error"
    code,            \* the code _generate_code returned last
    collided,        \* whether the running call has met a collision
    voucherCodes,    \* codes of the stored vouchers (Voucher.objects)
    rows,            \* ShippingMethodCountry rows
    choices,         \* the list country_choices() returned last
    earlier,         \* the list the call before that one returned
    lastOp           \* last operation on the shipping tables: "none","add","remove","call"

vars == <<instance, before, submitted, lastForm, salePc, data, cleaned_data, errors,
          returned_data, genPc, code, collided, voucherCodes, rows, choices, earlier,
          lastOp>>

voucherVars == <<instance, before, submitted, lastForm>>
saleVars == <<salePc, data, cleaned_data, errors, returned_data>>
codeVars == <<genPc, code, collided, voucherCodes>>
countryVars == <<rows, choices, earlier, lastOp>>

None == <<>>
Some(v) == <<v>>

Range(s) == {s[i] : i \in 1..Len(s)}

----------------------------------------------------------------------------
(* Bounds *)
MaxProduct == 2
MaxCategory == 1
MaxLimit == 1
MaxMethod == 2
MaxCountry == 2
MaxRows == 3
MaxDelta == 12
NumDigits == 2

----------------------------------------------------------------------------
(* Shipping country choices *)

\* COUNTRY_CODE_CHOICES of saleor.shipping.models: (code, display name) pairs
COUNTRY_CODE_CHOICES ==
    << <<"", "Rest of World">>, <<"PL", "Poland">>, <<"US", "United States of America">>,
       <<"DE", "Germany">>, <<"FR", "France">>, <<"GB", "United Kingdom">>,
       <<"IT", "Italy">>, <<"ES", "Spain">> >>

\* dict(COUNTRY_CODE_CHOICES)
country_dict == [c \in {p[1] : p \in Range(COUNTRY_CODE_CHOICES)} |->
                    (CHOOSE p \in Range(COUNTRY_CODE_CHOICES) : p[1] = c)[2]]

CountryCodes == {COUNTRY_CODE_CHOICES[i][1] : i \in 1..(MaxCountry + 1)}
Methods == 1..MaxMethod
ShippingMethodCountry == [shipping_method : Methods, country_code : CountryCodes]

\* the orders in which the database may hand back a set of rows
RowOrders(rs) ==
    {o \in [1..Cardinality(rs) -> rs] : \A i, j \in 1..Cardinality(rs) : o[i] = o[j] => i = j}

\* .values_list('country_code', flat=True)
values_list(order) == [i \in 1..Len(order) |-> order[i].country_code]

RECURSIVE distinct(_)
\* .distinct(): each value once
distinct(s) ==
    IF s = <<>> THEN <<>>
    ELSE LET front == distinct(SubSeq(s, 1, Len(s) - 1))
             last == s[Len(s)]
         IN IF last \in Range(front) THEN front ELSE Append(front, last)

\* a version that hands back the list of the previous call when there is one
country_choices_cached(order) ==
    IF lastOp # "none" /\ choices # <<>> THEN choices
    ELSE LET country_codes == distinct(values_list(order))
         IN [i \in 1..Len(country_codes) |-> <<country_codes[i], country_dict[country_codes[i]]>>]

country_choices(order) ==
    LET country_codes == distinct(values_list(order))
    IN [i \in 1..Len(country_codes) |-> <<country_codes[i], country_dict[country_codes[i]]>>]

DefaultRows == {[shipping_method |-> 1, country_code |-> "PL"],
                [shipping_method |-> 1, country_code |-> "US"]}

----------------------------------------------------------------------------
(* Voucher variant forms *)

DISCOUNT_VALUE_FIXED == "fixed"
DISCOUNT_VALUE_PERCENTAGE == "percentage"
DiscountValueTypes == {DISCOUNT_VALUE_FIXED, DISCOUNT_VALUE_PERCENTAGE}

APPLY_TO_ONE_PRODUCT == "one"
APPLY_TO_ALL_PRODUCTS == "all"
APPLY_TO_PRODUCT_CHOICES == {APPLY_TO_ONE_PRODUCT, APPLY_TO_ALL_PRODUCTS}

Products == 1..MaxProduct
Categories == 1..MaxCategory
Limits == (-1)..MaxLimit

Opt(S) == {None} \cup {Some(v) : v \in S}

\* the fields of Voucher the variant forms deal with
Voucher == [category : Opt(Categories), product : Opt(Products),
            limit : Opt(0..MaxLimit),
            apply_to : Opt({""} \cup APPLY_TO_PRODUCT_CHOICES \cup CountryCodes),
            discount_value_type : DiscountValueTypes]

NewVoucher == [category |-> None, product |-> None, limit |-> None, apply_to |-> None,
               discount_value_type |-> DISCOUNT_VALUE_FIXED]

\* ModelForm._post_clean: the cleaned value of each Meta.fields field is
\* assigned to the instance
construct_instance(inst, cleaned) ==
    [f \in DOMAIN inst |-> IF f \in DOMAIN cleaned THEN cleaned[f] ELSE inst[f]]

\* ChoiceField(required=False): the empty string or one of the choices
ChoiceValid(value, allowed) == value \in {Some("")} \cup {Some(c) : c \in allowed}

\* PriceField(min_value=0, required=False)
LimitValid(value) == IF value = None THEN TRUE ELSE value[1] >= 0

ShippingVoucherForm_is_valid(cleaned) ==
    /\ \E order \in RowOrders(rows) :
          ChoiceValid(cleaned.apply_to, {p[1] : p \in Range(country_choices(order))})
    /\ LimitValid(cleaned.limit)

ValueVoucherForm_is_valid(cleaned) == LimitValid(cleaned.limit)

ProductVoucherForm_is_valid(cleaned) ==
    /\ cleaned.product # None
    /\ ChoiceValid(cleaned.apply_to, APPLY_TO_PRODUCT_CHOICES)

CategoryVoucherForm_is_valid(cleaned) ==
    /\ cleaned.category # None
    /\ ChoiceValid(cleaned.apply_to, APPLY_TO_PRODUCT_CHOICES)

ShippingVoucherForm_save_keeps_product(inst) == [inst EXCEPT !.category = None]

ShippingVoucherForm_save(inst) == [inst EXCEPT !.category = None, !.product = None]

ValueVoucherForm_save_keeps_apply_to(inst) == [inst EXCEPT !.category = None, !.product = None]

ValueVoucherForm_save(inst) ==
    [inst EXCEPT !.category = None, !.apply_to = None, !.product = None]

CommonVoucherForm_save_any_type(inst) == [inst EXCEPT !.category = None, !.limit = None]

CommonVoucherForm_save_keeps_limit(inst) ==
    LET i1 == [inst EXCEPT !.category = None]
    IN IF i1.discount_value_type = DISCOUNT_VALUE_PERCENTAGE
       THEN [i1 EXCEPT !.apply_to = None]
       ELSE i1

CommonVoucherForm_save(inst) ==
    LET i1 == [inst EXCEPT !.category = None, !.limit = None]
    IN IF i1.discount_value_type = DISCOUNT_VALUE_PERCENTAGE
       THEN [i1 EXCEPT !.apply_to = None]
       ELSE i1

\* ShippingVoucherForm bound to the voucher, validated and saved
SaveShippingVoucherForm(apply_to, limit) ==
    LET cleaned == [apply_to |-> apply_to, limit |-> limit]
    IN /\ ShippingVoucherForm_is_valid(cleaned)
       /\ before' = instance
       /\ submitted' = cleaned
       /\ instance' = ShippingVoucherForm_save(construct_instance(instance, cleaned))
       /\ lastForm' = "shipping"
       /\ UNCHANGED <<saleVars, codeVars, countryVars>>

\* ValueVoucherForm bound to the voucher, validated and saved
SaveValueVoucherForm(limit) ==
    LET cleaned == [limit |-> limit]
    IN /\ ValueVoucherForm_is_valid(cleaned)
       /\ before' = instance
       /\ submitted' = cleaned
       /\ instance' = ValueVoucherForm_save(construct_instance(instance, cleaned))
       /\ lastForm' = "value"
       /\ UNCHANGED <<saleVars, codeVars, countryVars>>

\* ProductVoucherForm bound to the voucher, validated and saved
SaveProductVoucherForm(product, apply_to) ==
    LET cleaned == [product |-> product, apply_to |-> apply_to]
    IN /\ ProductVoucherForm_is_valid(cleaned)
       /\ before' = instance
       /\ submitted' = cleaned
       /\ instance' = CommonVoucherForm_save(construct_instance(instance, cleaned))
       /\ lastForm' = "product"
       /\ UNCHANGED <<saleVars, codeVars, countryVars>>

\* CategoryVoucherForm bound to the voucher, validated and saved
SaveCategoryVoucherForm(category, apply_to) ==
    LET cleaned == [category |-> category, apply_to |-> apply_to]
    IN /\ CategoryVoucherForm_is_valid(cleaned)
       /\ before' = instance
       /\ submitted' = cleaned
       /\ instance' = CommonVoucherForm_save(construct_instance(instance, cleaned))
       /\ lastForm' = "category"
       /\ UNCHANGED <<saleVars, codeVars, countryVars>>

\* VoucherForm saved: of the fields modelled it carries discount_value_type
\* only (limit, apply_to, product and category are excluded from it)
SaveVoucherForm(discount_value_type) ==
    /\ instance' = construct_instance(instance, [discount_value_type |-> discount_value_type])
    /\ UNCHANGED <<before, submitted, lastForm>>
    /\ UNCHANGED <<saleVars, codeVars, countryVars>>

OtherInit ==
    /\ salePc = "unbound" /\ data = None /\ cleaned_data = None /\ errors = {} /\ returned_data = None
    /\ genPc = "idle" /\ code = None /\ collided = FALSE /\ voucherCodes = {}
    /\ rows = DefaultRows /\ choices = <<>> /\ earlier = <<>> /\ lastOp = "none"

\* a new voucher, or a stored one with whatever fields it was given
Init ==
    /\ instance \in Voucher
    /\ before = instance
    /\ submitted = None
    /\ lastForm = "none"
    /\ OtherInit

Next ==
    \/ \E a \in Opt({"", "XX"} \cup CountryCodes), l \in Opt(Limits) : SaveShippingVoucherForm(a, l)
    \/ \E l \in Opt(Limits) : SaveValueVoucherForm(l)
    \/ \E p \in Opt(Products), a \in Opt({"", "XX"} \cup APPLY_TO_PRODUCT_CHOICES) :
          SaveProductVoucherForm(p, a)
    \/ \E c \in Opt(Categories), a \in Opt({"", "XX"} \cup APPLY_TO_PRODUCT_CHOICES) :
          SaveCategoryVoucherForm(c, a)
    \/ \E t \in DiscountValueTypes : SaveVoucherForm(t)

Spec == Init /\ [][Next]_vars

----------------------------------------------------------------------------
(* Sale form *)

FIXED == "fixed"
PERCENTAGE == "percentage"
SaleTypes == {FIXED, PERCENTAGE}

\* the values a sale is submitted with: around the 100 of the percentage rule
SaleValues == (100 - MaxDelta)..(100 + MaxDelta)

\* a dict without one key
DictWithout(d, k) == [f \in DOMAIN d \ {k} |-> d[f]]

\* BaseForm._clean_fields for the two required fields type and value: a field
\* that is missing or fails its own validation gets an error and no entry in
\* cleaned_data
clean_fields(d) ==
    LET valid == {f \in {"type", "value"} :
                    IF f = "type" THEN d.type \in {Some(t) : t \in SaleTypes}
                    ELSE d.value # None}
    IN [cleaned_data |-> [f \in valid |-> d[f][1]],
        errors |-> {"type", "value"} \ valid]

\* a clean() that lets every value through
SaleForm_clean_no_rule(cd, errs) ==
    IF "type" \notin DOMAIN cd \/ "value" \notin DOMAIN cd
    THEN [raised |-> TRUE, cleaned_data |-> cd, errors |-> errs, returned |-> None]
    ELSE [raised |-> FALSE, cleaned_data |-> cd, errors |-> errs, returned |-> Some(cd)]

\* SaleForm.clean on the form's cleaned_data and errors. cleaned_data['type']
\* and cleaned_data['value'] raise KeyError when the key is absent; add_error
\* records the error and deletes the field from cleaned_data, the same dict
\* clean() returns.
SaleForm_clean(cd, errs) ==
    IF "type" \notin DOMAIN cd \/ "value" \notin DOMAIN cd
    THEN [raised |-> TRUE, cleaned_data |-> cd, errors |-> errs, returned |-> None]
    ELSE IF cd.type = PERCENTAGE /\ cd.value > 100
         THEN [raised |-> FALSE, cleaned_data |-> DictWithout(cd, "value"),
               errors |-> errs \cup {"value"}, returned |-> Some(DictWithout(cd, "value"))]
         ELSE [raised |-> FALSE, cleaned_data |-> cd, errors |-> errs, returned |-> Some(cd)]

\* SaleForm(data): the form is bound to a submission
BindSaleForm(type, value) ==
    /\ salePc = "unbound"
    /\ salePc' = "bound"
    /\ data' = [type |-> type, value |-> value]
    /\ UNCHANGED <<cleaned_data, errors, returned_data>>
    /\ UNCHANGED <<voucherVars, codeVars, countryVars>>

\* form.is_valid(): the fields are cleaned, then clean() runs; an exception
\* other than ValidationError leaves _clean_form
SaleForm_full_clean ==
    /\ salePc = "bound"
    /\ LET fields == clean_fields(data)
           result == SaleForm_clean(fields.cleaned_data, fields.errors)
       IN /\ salePc' = IF result.raised THEN "raised" ELSE "cleaned"
          /\ cleaned_data' = result.cleaned_data
          /\ errors' = result.errors
          /\ returned_data' = result.returned
    /\ UNCHANGED data
    /\ UNCHANGED <<voucherVars, codeVars, countryVars>>

InitSale ==
    /\ instance = NewVoucher /\ before = NewVoucher /\ submitted = None /\ lastForm = "none"
    /\ OtherInit

NextSale ==
    \/ \E t \in Opt(SaleTypes \cup {"bogus"}), v \in Opt(SaleValues) : BindSaleForm(t, v)
    \/ SaleForm_full_clean

SpecSale == InitSale /\ [][NextSale]_vars

\* C2: for a submission whose type and value are both valid, clean attaches an
\* error to 'value' when type is PERCENTAGE and value > 100, and otherwise
\* attaches no error and returns the cleaned data unchanged.
C2_PercentageRule ==
    (salePc = "cleaned" /\ clean_fields(data).errors = {}) =>
        IF data.type = Some(PERCENTAGE) /\ data.value[1] > 100
        THEN "value" \in errors
        ELSE errors = {} /\ returned_data = Some(clean_fields(data).cleaned_data)

C2_Witness ==
    /\ salePc = "cleaned"
    /\ data = [type |-> Some(PERCENTAGE), value |-> Some(101)]
    /\ errors = {"value"}

\* C9: validating a SaleForm never lets an exception out of clean, also when
\* type or value is absent from the cleaned data.
C9_CleanNeverRaises == salePc # "raised"

----------------------------------------------------------------------------
(* Voucher code generation *)

CodeLength == 12

HexDigits == <<"0", "a", "f", "9", "1", "b", "2", "c", "3", "d", "4", "e", "5", "6", "7", "8">>
LowerLetters == <<"a", "b", "c", "d", "e", "f", "g", "h", "i", "j", "k", "l", "m",
                  "n", "o", "p", "q", "r", "s", "t", "u", "v", "w", "x", "y", "z">>
UpperLetters == <<"A", "B", "C", "D", "E", "F", "G", "H", "I", "J", "K", "L", "M",
                  "N", "O", "P", "Q", "R", "S", "T", "U", "V", "W", "X", "Y", "Z">>
Digits == {"0", "1", "2", "3", "4", "5", "6", "7", "8", "9"}

\* the hexadecimal digits the sampled UUIDs are made of
SampleDigits == {HexDigits[i] : i \in 1..NumDigits}

Repeat(c, n) == [i \in 1..n |-> c]

\* str(uuid.uuid4()): 8-4-4-4-12 lower-case hexadecimal digits, the third
\* group starting with the version 4 and the fourth with the variant; d1 fills
\* the first group and the last two, d2 the second and the third
uuid4_str(d1, d2) ==
    Repeat(d1, 8) \o <<"-">> \o Repeat(d2, 4) \o <<"-">> \o <<"4">> \o Repeat(d2, 3)
        \o <<"-">> \o <<"8">> \o Repeat(d1, 3) \o <<"-">> \o Repeat(d1, 12)

UUIDs == {uuid4_str(d1, d2) : d1, d2 \in SampleDigits}

\* str.replace('-', '')
replace_dash(s) == SelectSeq(s, LAMBDA c : c # "-")

\* str.upper() on one character
upper_char(c) ==
    IF \E i \in 1..Len(LowerLetters) : LowerLetters[i] = c
    THEN UpperLetters[CHOOSE i \in 1..Len(LowerLetters) : LowerLetters[i] = c]
    ELSE c

\* str.upper()
upper(s) == [i \in 1..Len(s) |-> upper_char(s[i])]

\* a candidate that keeps the case of the UUID's digits
candidate_code_lower(u) == SubSeq(replace_dash(u), 1, CodeLength)

\* str(uuid.uuid4()).replace('-', '').upper()[:12]
candidate_code(u) == SubSeq(upper(replace_dash(u)), 1, CodeLength)

\* the codes the sampled UUIDs give
CodeSpace == {candidate_code(u) : u \in UUIDs}

\* a code a user typed in
CustomCode == <<"S", "A", "L", "E">>
StorableCodes == CodeSpace \cup {CustomCode}

\* Voucher.objects.filter(code=code).exists()
code_exists(c) == c \in voucherCodes

\* the form calls its initial 'code' callable
GenCall ==
    /\ genPc \in {"idle", "returned"}
    /\ genPc' = "loop"
    /\ code' = None
    /\ collided' = FALSE
    /\ UNCHANGED voucherCodes
    /\ UNCHANGED <<voucherVars, saleVars, countryVars>>

\* a loop iteration that gives up with an error when the code is taken
GenRetryRaises(u) ==
    /\ genPc = "loop"
    /\ code_exists(candidate_code(u))
    /\ genPc' = "error"
    /\ collided' = TRUE
    /\ UNCHANGED <<code, voucherCodes>>
    /\ UNCHANGED <<voucherVars, saleVars, countryVars>>

\* one iteration of the loop whose sampled code is taken: the loop goes on
GenRetry(u) ==
    /\ genPc = "loop"
    /\ code_exists(candidate_code(u))
    /\ genPc' = "loop"
    /\ collided' = TRUE
    /\ UNCHANGED <<code, voucherCodes>>
    /\ UNCHANGED <<voucherVars, saleVars, countryVars>>

\* one iteration of the loop whose sampled code is free: it is returned
GenReturn(u) ==
    /\ genPc = "loop"
    /\ ~code_exists(candidate_code(u))
    /\ genPc' = "returned"
    /\ code' = candidate_code(u)
    /\ UNCHANGED <<collided, voucherCodes>>
    /\ UNCHANGED <<voucherVars, saleVars, countryVars>>

\* a voucher with code c is stored by another request (codes are unique)
AddVoucher(c) ==
    /\ c \notin voucherCodes
    /\ voucherCodes' = voucherCodes \cup {c}
    /\ UNCHANGED <<genPc, code, collided>>
    /\ UNCHANGED <<voucherVars, saleVars, countryVars>>

\* the voucher with code c is deleted by another request
DeleteVoucher(c) ==
    /\ c \in voucherCodes
    /\ voucherCodes' = voucherCodes \ {c}
    /\ UNCHANGED <<genPc, code, collided>>
    /\ UNCHANGED <<voucherVars, saleVars, countryVars>>

InitCode == InitSale

NextCode ==
    \/ GenCall
    \/ \E u \in UUIDs : GenRetry(u)
    \/ \E u \in UUIDs : GenReturn(u)
    \/ \E c \in StorableCodes : AddVoucher(c)
    \/ \E c \in StorableCodes : DeleteVoucher(c)

SpecCode == InitCode /\ [][NextCode]_vars

\* a code that is not among the stored ones is sampled in the end
FairSampling == SF_vars(\E u \in UUIDs : GenReturn(u))

LiveSpecCode == SpecCode /\ FairSampling

UpperAlnum == Range(UpperLetters) \cup Digits
AllCollide == CodeSpace \subseteq voucherCodes

\* C3: every code _generate_code returns is 12 characters long, made of
\* upper-case letters and digits only, and not the code of a voucher stored at
\* the moment it is returned.
C3_ReturnedCode ==
    [][(genPc = "loop" /\ genPc' = "returned") =>
          /\ Len(code') = 12
          /\ \A i \in 1..Len(code') : code'[i] \in UpperAlnum
          /\ code' \notin voucherCodes']_vars

C3_Witness ==
    /\ genPc = "returned"
    /\ Len(code) = 12
    /\ code[1] = "A"
    /\ voucherCodes # {}
    /\ code \notin voucherCodes

\* C10: the loop goes on while the sampled code is taken and has no error
\* outcome: a step of the loop either stays in the loop or returns a code
\* that is not stored; while every code that can be sampled is stored it does
\* not return; and when free codes keep being sampled a call that stays in
\* the loop forever is one for which all codes end up taken for good.
C10_RetryUntilFree ==
    /\ [][genPc = "loop" =>
            \/ genPc' = "loop"
            \/ genPc' = "returned" /\ code' \notin voucherCodes]_vars
    /\ [][(genPc = "loop" /\ AllCollide) => genPc' = "loop"]_vars
    /\ (<>[](genPc = "loop") => <>[]AllCollide)

C10_Witness ==
    /\ genPc = "returned"
    /\ collided
    /\ code \notin voucherCodes

----------------------------------------------------------------------------
(* Shipping tables and the calls of country_choices *)

\* a shipping method gets a price for one more country
\* (unique_together: one row per method and country)
AddShippingMethodCountry(m, c) ==
    LET row == [shipping_method |-> m, country_code |-> c]
    IN /\ row \notin rows
       /\ Cardinality(rows) < MaxRows
       /\ rows' = rows \cup {row}
       /\ lastOp' = "add"
       /\ UNCHANGED <<choices, earlier>>
       /\ UNCHANGED <<voucherVars, saleVars, codeVars>>

\* a shipping method's row for a country is deleted
RemoveShippingMethodCountry(row) ==
    /\ row \in rows
    /\ rows' = rows \ {row}
    /\ lastOp' = "remove"
    /\ UNCHANGED <<choices, earlier>>
    /\ UNCHANGED <<voucherVars, saleVars, codeVars>>

\* country_choices() is called (the apply_to field of ShippingVoucherForm asks
\* for its choices); the database hands the rows back in some order
CallCountryChoices(order) ==
    /\ choices' = country_choices(order)
    /\ earlier' = choices
    /\ lastOp' = "call"
    /\ UNCHANGED rows
    /\ UNCHANGED <<voucherVars, saleVars, codeVars>>

InitCountry == InitSale

NextCountry ==
    \/ \E m \in Methods, c \in CountryCodes : AddShippingMethodCountry(m, c)
    \/ \E row \in ShippingMethodCountry : RemoveShippingMethodCountry(row)
    \/ \E order \in RowOrders(rows) : CallCountryChoices(order)

SpecCountry == InitCountry /\ [][NextCountry]_vars

\* C8: what a call of country_choices() returns is exactly the country codes
\* in ShippingMethodCountry at that call, each once and each with its display
\* name from COUNTRY_CODE_CHOICES, also after rows were added or removed
\* since an earlier call.
C8_ChoicesAreCurrent ==
    lastOp = "call" =>
        /\ {choices[i][1] : i \in 1..Len(choices)} = {row.country_code : row \in rows}
        /\ \A i, j \in 1..Len(choices) : choices[i][1] = choices[j][1] => i = j
        /\ \A i \in 1..Len(choices) : choices[i] \in Range(COUNTRY_CODE_CHOICES)

C8_Witness ==
    /\ lastOp = "call"
    /\ earlier # <<>>
    /\ {earlier[i][1] : i \in 1..Len(earlier)} # {row.country_code : row \in rows}
    /\ Cardinality(rows) = 3
    /\ Len(choices) = 2

----------------------------------------------------------------------------
(* Properties of the voucher variant forms *)

VariantForms == {"shipping", "value", "product", "category"}
IsSet(v) == v # None
NumSet(inst, fields) == Cardinality({f \in fields : IsSet(inst[f])})

\* C1: after each variant form's save the fields of the other variants are
\* None and the variant's own submitted field is kept: shipping leaves
\* category and product None; value leaves category, product and apply_to
\* None and keeps limit; product leaves category and limit None and keeps the
\* submitted product; category leaves product and limit None and keeps the
\* submitted category.
C1_OtherVariantsNulled ==
    /\ lastForm = "shipping" =>
          /\ instance.category = None /\ instance.product = None
          /\ instance.limit = submitted.limit
    /\ lastForm = "value" =>
          /\ instance.category = None /\ instance.product = None /\ instance.apply_to = None
          /\ instance.limit = submitted.limit
    /\ lastForm = "product" =>
          /\ instance.category = None /\ instance.limit = None
          /\ instance.product = submitted.product
    /\ lastForm = "category" =>
          /\ instance.product = None /\ instance.limit = None
          /\ instance.category = submitted.category

\* C4 as stated: after any sequence of variant-form saves at most one of
\* category, product, limit, apply_to is set.
C4_AtMostOneOfFour ==
    lastForm \in VariantForms =>
        NumSet(instance, {"category", "product", "limit", "apply_to"}) <= 1

\* C4 amended: after any sequence of variant-form saves at most one of
\* category, product, limit is set; apply_to may be set next to it.
C4_AtMostOneOfThree ==
    lastForm \in VariantForms => NumSet(instance, {"category", "product", "limit"}) <= 1

C4_Witness ==
    /\ lastForm = "product"
    /\ IsSet(before.limit) /\ IsSet(before.category)
    /\ IsSet(instance.product) /\ IsSet(instance.apply_to)

\* C5: a save of ProductVoucherForm or CategoryVoucherForm on a voucher whose
\* discount_value_type is PERCENTAGE leaves apply_to None whatever was
\* submitted or stored; otherwise apply_to is as submitted.
C5_PercentageClearsApplyTo ==
    lastForm \in {"product", "category"} =>
        IF before.discount_value_type = DISCOUNT_VALUE_PERCENTAGE
        THEN instance.apply_to = None
        ELSE instance.apply_to = submitted.apply_to

C5_Witness ==
    /\ lastForm = "category"
    /\ before.discount_value_type = DISCOUNT_VALUE_PERCENTAGE
    /\ before.apply_to = Some(APPLY_TO_ALL_PRODUCTS)
    /\ submitted.apply_to = Some(APPLY_TO_ONE_PRODUCT)
    /\ instance.apply_to = None

\* C6: a save of ShippingVoucherForm leaves category and product None whatever
\* they held before, and apply_to and limit as submitted.
C6_ShippingSave ==
    lastForm = "shipping" =>
        /\ instance.category = None
        /\ instance.product = None
        /\ instance.apply_to = submitted.apply_to
        /\ instance.limit = submitted.limit

C6_Witness ==
    /\ lastForm = "shipping"
    /\ IsSet(before.category) /\ IsSet(before.product)
    /\ submitted.apply_to = Some("US") /\ submitted.limit = Some(1)
    /\ instance.category = None /\ instance.product = None

\* C7: a save of ValueVoucherForm leaves category, apply_to and product None
\* whatever they held before, and limit as submitted.
C7_ValueSave ==
    lastForm = "value" =>
        /\ instance.category = None
        /\ instance.apply_to = None
        /\ instance.product = None
        /\ instance.limit = submitted.limit

C7_Witness ==
    /\ lastForm = "value"
    /\ IsSet(before.category) /\ IsSet(before.apply_to) /\ IsSet(before.product)
    /\ submitted.limit = Some(1)
    /\ instance.apply_to = None

====
